---------------------------- MODULE Spec2Model ----------------------------
(***************************************************************************)
(* Admission control of the EU AI Act compliance RAG API.                  *)
(*                                                                         *)
(* Two limiters live in the source:                                        *)
(*   src/core/rate_limiter.py  TokenBucket / RateLimiter and the HTTP      *)
(*                             middleware rate_limit_middleware;           *)
(*   src/core/security.py      InputValidator and the window limiter        *)
(*                             RateLimiter with its abuse record and block *)
(*                             set, called by the /v1/answer route.        *)
(*                                                                         *)
(* Time is counted in ticks of 1/TicksPerSecond second.  Token levels are  *)
(* counted in 1/TicksPerSecond token, so that a refill rate of r tokens    *)
(* per second adds r units per tick and fractional token levels exist.     *)
(***************************************************************************)
EXTENDS Integers, Sequences, FiniteSets, TLC

VARIABLES
    now,             \* time.time(), in ticks
    user_limiters,   \* rate_limiter.RateLimiter.user_limiters: user_id -> TokenBucket
    requests,        \* security.RateLimiter.requests: key -> list of request times
    suspicious_ips,  \* security.RateLimiter.suspicious_ips: ip -> list of events
    blocked_ips,     \* security.RateLimiter.blocked_ips: set of ip
    pc,              \* position of each concurrently running caller
    windows,         \* FixedWindowLimiter.windows: key -> deque of request times
    last             \* observation: what the most recent operation did and returned

vars == <<now, user_limiters, requests, suspicious_ips, blocked_ips, pc, windows,
          last>>

-----------------------------------------------------------------------------
(* Bounds of the model *)

TicksPerSecond == 2       \* clock and token resolution
MaxCost == 2              \* consume(tokens=k) is called with k in 1..MaxCost
SmallHorizon == 3         \* single ticks are taken while now < SmallHorizon

-----------------------------------------------------------------------------
(* Helpers *)

Min(a, b) == IF a <= b THEN a ELSE b

Seconds(s) == s * TicksPerSecond

\* dict[key] = value on a dict modelled as a function with a growing domain
Put(d, k, v) == [x \in (DOMAIN d) \cup {k} |-> IF x = k THEN v ELSE d[x]]

EmptyDict == [x \in {} |-> 0]

NoOp == [op |-> "none"]

-----------------------------------------------------------------------------
(* rate_limiter.py: TokenBucket *)

\* TokenBucket.__init__: a bucket starts full, last_refill = time.time()
NewBucket(capacity, refill_rate, t) ==
    [capacity |-> Seconds(capacity), refill_rate |-> refill_rate,
     tokens |-> Seconds(capacity), last_refill |-> t]

\* A refill that forgets the cap: tokens + time_passed * refill_rate
RefillNoCap(b, t) ==
    [b EXCEPT !.tokens = b.tokens + (t - b.last_refill) * b.refill_rate,
              !.last_refill = t]

\* consume(), lines 38-43: refill for the time passed, capped at capacity
Refill(b, t) ==
    [b EXCEPT !.tokens = Min(b.capacity,
                             b.tokens + (t - b.last_refill) * b.refill_rate),
              !.last_refill = t]

\* consume() that empties the bucket when it refuses
ConsumeDrainsOnDenial(b, cost, t) ==
    LET r == Refill(b, t) IN
    IF r.tokens >= Seconds(cost)
    THEN [bucket |-> [r EXCEPT !.tokens = @ - Seconds(cost)], ok |-> TRUE]
    ELSE [bucket |-> [r EXCEPT !.tokens = 0], ok |-> FALSE]

\* consume() that does not move last_refill, so the same elapsed time is
\* credited again by the next call
ConsumeKeepsLastRefill(b, cost, t) ==
    LET r == [Refill(b, t) EXCEPT !.last_refill = b.last_refill] IN
    IF r.tokens >= Seconds(cost)
    THEN [bucket |-> [r EXCEPT !.tokens = @ - Seconds(cost)], ok |-> TRUE]
    ELSE [bucket |-> r, ok |-> FALSE]

\* TokenBucket.consume(tokens=cost) at time t: the bucket afterwards and the result
Consume(b, cost, t) ==
    LET r == Refill(b, t) IN
    IF r.tokens >= Seconds(cost)
    THEN [bucket |-> [r EXCEPT !.tokens = @ - Seconds(cost)], ok |-> TRUE]
    ELSE [bucket |-> r, ok |-> FALSE]

-----------------------------------------------------------------------------
(* rate_limiter.py: FixedWindowLimiter *)

RECURSIVE PopOld(_, _)
\* "while user_requests and user_requests[0] < window_start: popleft()"
PopOld(user_requests, window_start) ==
    IF user_requests # <<>> /\ user_requests[1] < window_start
    THEN PopOld(Tail(user_requests), window_start)
    ELSE user_requests

\* is_allowed that never drops an old request from the window
FixedWindowKeepsAll(wins, window_size, max_requests, key, t) ==
    LET w0 == IF key \in DOMAIN wins THEN wins[key] ELSE <<>>
    IN  IF Len(w0) < max_requests
        THEN [windows |-> Put(wins, key, Append(w0, t)), ok |-> TRUE]
        ELSE [windows |-> Put(wins, key, w0), ok |-> FALSE]

\* FixedWindowLimiter(window_size, max_requests).is_allowed(key) at time t:
\* the windows afterwards (the defaultdict creates the key's deque when it is
\* read) and the result
FixedWindowIsAllowed(wins, window_size, max_requests, key, t) ==
    LET w0   == IF key \in DOMAIN wins THEN wins[key] ELSE <<>>
        kept == PopOld(w0, t - Seconds(window_size))
    IN  IF Len(kept) < max_requests
        THEN [windows |-> Put(wins, key, Append(kept, t)), ok |-> TRUE]
        ELSE [windows |-> Put(wins, key, kept), ok |-> FALSE]

-----------------------------------------------------------------------------
(* rate_limiter.py: RateLimiter *)

Roles == {"admin", "analyst", "viewer"}

\* RateLimiter.limits
limits ==
    [r \in Roles |->
        CASE r = "admin"   -> [requests_per_minute |-> 300, burst |-> 50]
          [] r = "analyst" -> [requests_per_minute |-> 120, burst |-> 20]
          [] r = "viewer"  -> [requests_per_minute |-> 60,  burst |-> 10]]

\* a lookup that gives every role the viewer's limits
LimitsOfViewerOnly(role) == limits["viewer"]

\* self.limits.get(role, self.limits["viewer"])
LimitsOf(role) == IF role \in Roles THEN limits[role] ELSE limits["viewer"]

\* get_user_limiter that refits an existing bucket to the role it is given
GetUserLimiterResizes(lims, user_id, role, t) ==
    IF user_id \notin DOMAIN lims
    THEN Put(lims, user_id,
             NewBucket(LimitsOf(role).burst,
                       LimitsOf(role).requests_per_minute \div 60, t))
    ELSE [lims EXCEPT ![user_id].capacity = Seconds(LimitsOf(role).burst),
                      ![user_id].refill_rate =
                          LimitsOf(role).requests_per_minute \div 60]

\* get_user_limiter whose test "user_id not in self.user_limiters" is lost:
\* every call stores a fresh, full bucket
GetUserLimiterAlwaysCreates(lims, user_id, role, t) ==
    Put(lims, user_id,
        NewBucket(LimitsOf(role).burst,
                  LimitsOf(role).requests_per_minute \div 60, t))

\* RateLimiter.get_user_limiter: the bucket is created on the first request
GetUserLimiter(lims, user_id, role, t) ==
    IF user_id \notin DOMAIN lims
    THEN Put(lims, user_id,
             NewBucket(LimitsOf(role).burst,
                       LimitsOf(role).requests_per_minute \div 60, t))
    ELSE lims

\* RateLimiter.is_allowed: the limiters afterwards and the result of consume()
IsAllowed(lims, user_id, role, t) ==
    LET l == GetUserLimiter(lims, user_id, role, t)
        c == Consume(l[user_id], 1, t)
    IN  [limiters |-> Put(l, user_id, c.bucket), ok |-> c.ok]

\* RateLimiter.get_remaining_tokens: int(limiter.tokens) of the bucket as the
\* last consume() left it; the bucket is created if the user has none
GetRemainingTokens(lims, user_id, role, t) ==
    LET l == GetUserLimiter(lims, user_id, role, t)
    IN  [limiters |-> l, value |-> l[user_id].tokens \div TicksPerSecond]

\* get_reset_time that takes every bucket for full
GetResetTimeAlwaysFull(lims, user_id, role, t) ==
    [limiters |-> GetUserLimiter(lims, user_id, role, t), num |-> 0,
     den |-> TicksPerSecond]

\* RateLimiter.get_reset_time: 0 for a full bucket, else the seconds until it
\* is full, (capacity - tokens) / refill_rate with the rate of the role that
\* is passed; given as the pair of numerator and denominator
GetResetTime(lims, user_id, role, t) ==
    LET l == GetUserLimiter(lims, user_id, role, t)
        b == l[user_id]
        rate == LimitsOf(role).requests_per_minute \div 60
    IN  [limiters |-> l,
         num |-> IF b.tokens >= b.capacity THEN 0 ELSE b.capacity - b.tokens,
         den |-> rate * TicksPerSecond]

-----------------------------------------------------------------------------
(* The token bucket driven directly: SpecBucket *)

BucketUsers == {"viewer"}
RolesPassed == Roles \cup {"guest"}

InitBucket ==
    /\ now = 0
    /\ user_limiters = EmptyDict
    /\ requests = EmptyDict
    /\ suspicious_ips = EmptyDict
    /\ blocked_ips = {}
    /\ windows = EmptyDict
    /\ pc = EmptyDict
    /\ last = NoOp

\* the clock advances by one tick or by ten seconds
BucketTick ==
    /\ now < SmallHorizon
    /\ \E d \in {1, Seconds(10)} : now' = now + d
    /\ UNCHANGED <<user_limiters, requests, suspicious_ips, blocked_ips, pc, windows,
                 last>>

\* rate_limiter.is_allowed(user_id, role)
IsAllowedCall ==
    \E u \in BucketUsers, role \in RolesPassed :
        LET r == IsAllowed(user_limiters, u, role, now) IN
        /\ user_limiters' = r.limiters
        /\ last' = [op |-> "is_allowed", user |-> u, role |-> role, cost |-> 1,
                    ok |-> r.ok]
        /\ UNCHANGED <<now, requests, suspicious_ips, blocked_ips, pc, windows>>

\* bucket.consume(cost) on an existing bucket
ConsumeCall ==
    \E u \in DOMAIN user_limiters, cost \in 1..MaxCost :
        LET c == Consume(user_limiters[u], cost, now) IN
        /\ user_limiters' = Put(user_limiters, u, c.bucket)
        /\ last' = [op |-> "consume", user |-> u, role |-> "", cost |-> cost,
                    ok |-> c.ok]
        /\ UNCHANGED <<now, requests, suspicious_ips, blocked_ips, pc, windows>>

\* rate_limiter.get_remaining_tokens(user_id, role)
GetRemainingTokensCall ==
    \E u \in BucketUsers, role \in RolesPassed :
        LET r == GetRemainingTokens(user_limiters, u, role, now) IN
        /\ user_limiters' = r.limiters
        /\ last' = [op |-> "get_remaining_tokens", user |-> u, role |-> role,
                    time |-> now, value |-> r.value]
        /\ UNCHANGED <<now, requests, suspicious_ips, blocked_ips, pc, windows>>

\* rate_limiter.get_reset_time(user_id, role)
GetResetTimeCall ==
    \E u \in BucketUsers, role \in RolesPassed :
        LET r == GetResetTime(user_limiters, u, role, now) IN
        /\ user_limiters' = r.limiters
        /\ last' = [op |-> "get_reset_time", user |-> u, role |-> role,
                    time |-> now, num |-> r.num, den |-> r.den]
        /\ UNCHANGED <<now, requests, suspicious_ips, blocked_ips, pc, windows>>

NextBucket ==
    \/ BucketTick
    \/ IsAllowedCall
    \/ ConsumeCall
    \/ GetRemainingTokensCall
    \/ GetResetTimeCall

SpecBucket == InitBucket /\ [][NextBucket]_vars

-----------------------------------------------------------------------------
\* C1: for every bucket, after every consume() call with cost >= 1 under a
\* non-decreasing clock, 0 <= tokens <= capacity.
C1_TokensWithinCapacity ==
    \A u \in DOMAIN user_limiters :
        /\ 0 <= user_limiters[u].tokens
        /\ user_limiters[u].tokens <= user_limiters[u].capacity

\* a consume() of cost 2 that ran after time had passed, was admitted and
\* emptied the bucket
C1_Witness ==
    /\ last.op = "consume" /\ last.cost = 2 /\ last.ok
    /\ user_limiters[last.user].tokens = 0
    /\ user_limiters[last.user].last_refill > 0

\* C12: a bucket of capacity c and refill rate r that received no call for
\* c/r seconds, whatever its token level was, reports c as remaining tokens.
C12_RemainingReflectsRefill ==
    last.op = "get_remaining_tokens" =>
        LET b == user_limiters[last.user] IN
        (last.time - b.last_refill) * b.refill_rate >= b.capacity =>
            last.value = b.capacity \div TicksPerSecond

-----------------------------------------------------------------------------
(* Concurrent callers of one bucket: SpecConcurrent                        *)
(*                                                                         *)
(* The only caller of is_allowed() is rate_limit_middleware, an async def  *)
(* that the server runs on its single event loop.  is_allowed(),           *)
(* get_user_limiter() and consume() are plain synchronous functions with   *)
(* no await inside, so a caller is suspended only before or after the      *)
(* call, never inside it: one call is one step, and the callers' steps are *)
(* taken in any order.  The clock stands still.                            *)

NumCallers == 11          \* callers issued at once against one identity

Callers == 1..NumCallers

\* a consume() inside which the caller can lose the processor between the
\* check of line 46 and the decrement of line 47
SuspendsAfterCheck == TRUE

\* consume(), lines 46-47: no await (and no other thread) separates the
\* check "self.tokens >= tokens" from "self.tokens -= tokens"
SuspendsInsideConsume == FALSE

InitConcurrent ==
    /\ now = 0
    /\ user_limiters = EmptyDict
    /\ requests = EmptyDict
    /\ suspicious_ips = EmptyDict
    /\ blocked_ips = {}
    /\ windows = EmptyDict
    /\ pc = [c \in Callers |-> "start"]
    /\ last = NoOp

\* caller c runs rate_limiter.is_allowed("viewer", "viewer").  From "start"
\* it runs get_user_limiter and consume() up to the next suspension point;
\* from "checked" (reached only if consume() can be suspended) it runs
\* line 47 on the tokens it finds.
CallerConsumes(c) ==
    /\ pc[c] \in {"start", "checked"}
    /\ IF pc[c] = "start"
       THEN IF SuspendsInsideConsume
            THEN LET l == GetUserLimiter(user_limiters, "viewer", "viewer", now)
                     r == Refill(l["viewer"], now)
                 IN  /\ user_limiters' = Put(l, "viewer", r)
                     /\ pc' = [pc EXCEPT ![c] = IF r.tokens >= Seconds(1)
                                                THEN "checked" ELSE "denied"]
                     /\ last' = [op |-> "is_allowed", user |-> "viewer",
                                 role |-> "viewer", cost |-> 1,
                                 ok |-> r.tokens >= Seconds(1)]
            ELSE LET r == IsAllowed(user_limiters, "viewer", "viewer", now) IN
                     /\ user_limiters' = r.limiters
                     /\ pc' = [pc EXCEPT ![c] = IF r.ok THEN "admitted" ELSE "denied"]
                     /\ last' = [op |-> "is_allowed", user |-> "viewer",
                                 role |-> "viewer", cost |-> 1, ok |-> r.ok]
       ELSE /\ user_limiters' = [user_limiters EXCEPT
                                   !["viewer"].tokens = @ - Seconds(1)]
            /\ pc' = [pc EXCEPT ![c] = "admitted"]
            /\ last' = [op |-> "is_allowed", user |-> "viewer",
                        role |-> "viewer", cost |-> 1, ok |-> TRUE]
    /\ UNCHANGED <<now, requests, suspicious_ips, blocked_ips, windows>>

NextConcurrent == \E c \in Callers : CallerConsumes(c)

SpecConcurrent == InitConcurrent /\ [][NextConcurrent]_vars

Admitted == {c \in Callers : pc[c] = "admitted"}
Denied == {c \in Callers : pc[c] = "denied"}

\* C2: N > capacity concurrent consume() calls against one fresh bucket of
\* capacity 10 with no elapsed time: never more than 10 are admitted, every
\* admitted caller took a token of its own (the tokens left are the capacity
\* minus one per admitted caller), a caller is denied only once 10 were
\* admitted, and when all callers are done exactly 10 were admitted and
\* N - 10 denied, in every order of the callers.
C2_ExactlyCapacityAdmitted ==
    /\ Cardinality(Admitted) <= 10
    /\ \A u \in DOMAIN user_limiters :
          user_limiters[u].tokens = Seconds(10 - Cardinality(Admitted))
    /\ Denied # {} => Cardinality(Admitted) = 10
    /\ (\A c \in Callers : pc[c] \in {"admitted", "denied"}) =>
          /\ Cardinality(Admitted) = 10
          /\ Cardinality(Denied) = NumCallers - 10

\* all callers are done, the last one to run was denied
C2_Witness ==
    /\ \A c \in Callers : pc[c] \in {"admitted", "denied"}
    /\ Cardinality(Denied) >= 1
    /\ last.op = "is_allowed" /\ ~last.ok

-----------------------------------------------------------------------------
(* security.py: InputValidator *)

min_question_length == 10
max_question_length == 1000

\* A question is described by what validate_question reads of it: its
\* length, whether one of suspicious_patterns matches, how many of the five
\* sql_patterns match, and whether html.escape changes it.
Question(len, suspicious, sql, html) ==
    [len |-> len, suspicious |-> suspicious, sql |-> sql, html |-> html]

\* validate_question that treats a SQL-injection match as an error
ValidateQuestionSqlRejects(q) ==
    LET tooShort == q.len < min_question_length
        tooLong  == q.len > max_question_length
    IN  [valid     |-> ~tooShort /\ ~tooLong /\ ~q.suspicious /\ q.sql = 0,
         sanitized |-> IF q.html THEN "escaped" ELSE "unchanged",
         warnings  |-> IF q.html THEN <<"HTML characters escaped">> ELSE <<>>,
         errors    |->
            (IF tooShort THEN <<"Question too short (min 10 chars)">> ELSE <<>>)
            \o (IF tooLong THEN <<"Question too long (max 1000 chars)">> ELSE <<>>)
            \o (IF q.suspicious THEN <<"Suspicious content detected">> ELSE <<>>)
            \o [i \in 1..q.sql |-> "Potential SQL injection pattern detected"]]

\* InputValidator.validate_question
ValidateQuestion(q) ==
    LET tooShort == q.len < min_question_length
        tooLong  == q.len > max_question_length
        errors   ==
            (IF tooShort THEN <<"Question too short (min 10 chars)">> ELSE <<>>)
            \o (IF tooLong THEN <<"Question too long (max 1000 chars)">> ELSE <<>>)
            \o (IF q.suspicious THEN <<"Suspicious content detected">> ELSE <<>>)
        warnings ==
            (IF q.html THEN <<"HTML characters escaped">> ELSE <<>>)
            \o [i \in 1..q.sql |-> "Potential SQL injection pattern detected"]
    IN  [valid     |-> ~tooShort /\ ~tooLong /\ ~q.suspicious,
         sanitized |-> IF q.html THEN "escaped" ELSE "unchanged",
         warnings  |-> warnings,
         errors    |-> errors]

-----------------------------------------------------------------------------
(* The validator applied to questions of every kind: SpecValidator *)

\* lengths around the two limits
QuestionLengths == {0, 1, 9, 10, 11, 22, 500, 999, 1000, 1001}

\* The questions that exist: the shortest suspicious pattern ("onload=") has
\* 7 characters, each sql pattern at least 10 and no two of them overlap,
\* and html.escape changes only a text that has a character.
ValidatorQuestions ==
    { q \in { Question(l, s, k, h) :
                l \in QuestionLengths, s \in BOOLEAN, k \in 0..5, h \in BOOLEAN } :
        /\ q.suspicious => q.len >= 7
        /\ q.len >= 10 * q.sql
        /\ q.html => q.len >= 1 }

InitValidator ==
    /\ now = 0
    /\ user_limiters = EmptyDict
    /\ requests = EmptyDict
    /\ suspicious_ips = EmptyDict
    /\ blocked_ips = {}
    /\ windows = EmptyDict
    /\ pc = EmptyDict
    /\ last = NoOp

\* input_validator.validate_question(question)
ValidateCall ==
    \E q \in ValidatorQuestions :
        /\ last' = [op |-> "validate_question", q |-> q,
                    result |-> ValidateQuestion(q)]
        /\ UNCHANGED <<now, user_limiters, requests, suspicious_ips, blocked_ips,
                       pc, windows>>

NextValidator == ValidateCall

SpecValidator == InitValidator /\ [][NextValidator]_vars

\* x occurs in seq
Contains(seq, x) == \E i \in 1..Len(seq) : seq[i] = x

\* C14: validate_question answers valid exactly when the length is within
\* [10, 1000] and no suspicious pattern matches; a too short text gets the
\* minimum-length error, a too long one the maximum-length error, a
\* suspicious match "Suspicious content detected", and there is no other
\* error; a SQL-pattern match and an HTML-escape change each only add a
\* warning: the verdict and the errors are those of the same text without
\* them.
C14_ValidExactlyWhen ==
    last.op = "validate_question" =>
        LET q == last.q
            r == last.result
            plain == ValidateQuestion(Question(q.len, q.suspicious, 0, FALSE))
        IN  /\ r.valid <=> (q.len >= 10 /\ q.len <= 1000 /\ ~q.suspicious)
            /\ Contains(r.errors, "Question too short (min 10 chars)")
                  <=> q.len < 10
            /\ Contains(r.errors, "Question too long (max 1000 chars)")
                  <=> q.len > 1000
            /\ Contains(r.errors, "Suspicious content detected") <=> q.suspicious
            /\ Len(r.errors) = (IF q.len < 10 THEN 1 ELSE 0)
                                  + (IF q.len > 1000 THEN 1 ELSE 0)
                                  + (IF q.suspicious THEN 1 ELSE 0)
            /\ r.valid <=> (r.errors = <<>>)
            /\ Len(r.warnings) = q.sql + (IF q.html THEN 1 ELSE 0)
            /\ r.valid = plain.valid
            /\ r.errors = plain.errors

\* a question of the maximum length that matches SQL patterns and is changed
\* by html.escape was found valid, with warnings
C14_Witness ==
    /\ last.op = "validate_question"
    /\ last.q.len = 1000 /\ last.q.sql >= 1 /\ last.q.html
    /\ last.result.valid
    /\ Len(last.result.warnings) >= 2

-----------------------------------------------------------------------------
(* security.py: RateLimiter (window limiter, abuse record, block set) *)

BlockThreshold == 5       \* "Block IP after 5 suspicious activities"
WindowSeconds == 60       \* "1 minute window"
WindowLimit == 2          \* requests per window; 60 in the source, scaled down
BlockedRetryAfter == 3600
WindowRetryAfter == 60

\* RateLimiter.is_ip_blocked
IsIpBlocked(blocked, ip) == ip \in blocked

\* record_suspicious_activity that appends the event but never blocks
RecordWithoutBlocking(susp, blocked, ip, reason, t) ==
    LET s0 == IF ip \notin DOMAIN susp THEN Put(susp, ip, <<>>) ELSE susp
    IN  [suspicious_ips |->
            Put(s0, ip, Append(s0[ip], [timestamp |-> t, reason |-> reason])),
         blocked_ips |-> blocked]

\* record_suspicious_activity that blocks one event early
RecordBlocksEarly(susp, blocked, ip, reason, t) ==
    LET s0 == IF ip \notin DOMAIN susp THEN Put(susp, ip, <<>>) ELSE susp
        s1 == Put(s0, ip, Append(s0[ip], [timestamp |-> t, reason |-> reason]))
    IN  [suspicious_ips |-> s1,
         blocked_ips |-> IF Len(s1[ip]) >= BlockThreshold - 1
                         THEN blocked \cup {ip} ELSE blocked]

\* record_suspicious_activity that forgets the events older than an hour
RecordDecaying(susp, blocked, ip, reason, t) ==
    LET s0 == IF ip \notin DOMAIN susp THEN Put(susp, ip, <<>>) ELSE susp
        recent == SelectSeq(s0[ip],
                    LAMBDA e : t - e.timestamp < Seconds(BlockedRetryAfter))
        s1 == Put(s0, ip, Append(recent, [timestamp |-> t, reason |-> reason]))
    IN  [suspicious_ips |-> s1,
         blocked_ips |-> IF Len(s1[ip]) >= BlockThreshold
                         THEN blocked \cup {ip} ELSE blocked]

\* RateLimiter.record_suspicious_activity
RecordSuspiciousActivity(susp, blocked, ip, reason, t) ==
    LET s0 == IF ip \notin DOMAIN susp THEN Put(susp, ip, <<>>) ELSE susp
        s1 == Put(s0, ip, Append(s0[ip], [timestamp |-> t, reason |-> reason]))
    IN  [suspicious_ips |-> s1,
         blocked_ips |-> IF Len(s1[ip]) >= BlockThreshold
                         THEN blocked \cup {ip} ELSE blocked]

\* f"{ip}:{user_id or 'anonymous'}"; a missing (None) or empty user id is ""
Key(ip, user_id) ==
    ip \o ":" \o (IF user_id = "" THEN "anonymous" ELSE user_id)

\* the window check with the limit test off by one: a full window still
\* admits one more request
CheckWindowOffByOne(reqs, susp, blocked, ip, user_id, t) ==
    LET key  == Key(ip, user_id)
        r0   == IF key \notin DOMAIN reqs THEN Put(reqs, key, <<>>) ELSE reqs
        kept == SelectSeq(r0[key], LAMBDA rt : t - rt < Seconds(WindowSeconds))
        r1   == Put(r0, key, kept)
    IN  IF Len(kept) > WindowLimit
        THEN [requests |-> r1,
              suspicious_ips |-> susp, blocked_ips |-> blocked,
              result |-> [allowed |-> FALSE,
                          reason |-> "Rate limit exceeded",
                          retry_after |-> WindowRetryAfter]]
        ELSE [requests |-> Put(r1, key, Append(kept, t)),
              suspicious_ips |-> susp, blocked_ips |-> blocked,
              result |-> [allowed |-> TRUE,
                          remaining |-> WindowLimit - (Len(kept) + 1)]]

\* the window check with its windows kept per IP instead of per key
CheckWindowKeyedByIp(reqs, susp, blocked, ip, user_id, t) ==
    LET key  == ip
        r0   == IF key \notin DOMAIN reqs THEN Put(reqs, key, <<>>) ELSE reqs
        kept == SelectSeq(r0[key], LAMBDA rt : t - rt < Seconds(WindowSeconds))
        r1   == Put(r0, key, kept)
    IN  IF Len(kept) >= WindowLimit
        THEN LET rec == RecordSuspiciousActivity(susp, blocked, ip,
                                                 "Rate limit exceeded", t)
             IN  [requests |-> r1,
                  suspicious_ips |-> rec.suspicious_ips,
                  blocked_ips |-> rec.blocked_ips,
                  result |-> [allowed |-> FALSE,
                              reason |-> "Rate limit exceeded",
                              retry_after |-> WindowRetryAfter]]
        ELSE [requests |-> Put(r1, key, Append(kept, t)),
              suspicious_ips |-> susp, blocked_ips |-> blocked,
              result |-> [allowed |-> TRUE,
                          remaining |-> WindowLimit - (Len(kept) + 1)]]

\* the verdict returned for a blocked IP
IpBlockedResult ==
    [allowed |-> FALSE, reason |-> "IP blocked", retry_after |-> BlockedRetryAfter]

\* check_rate_limit, lines 197-223, for an IP that is not blocked: the
\* window of the key is pruned, then either the request is denied and the
\* denial recorded as suspicious, or its time is appended
CheckWindow(reqs, susp, blocked, ip, user_id, t) ==
    LET key  == Key(ip, user_id)
        r0   == IF key \notin DOMAIN reqs THEN Put(reqs, key, <<>>) ELSE reqs
        kept == SelectSeq(r0[key], LAMBDA rt : t - rt < Seconds(WindowSeconds))
        r1   == Put(r0, key, kept)
    IN  IF Len(kept) >= WindowLimit
        THEN LET rec == RecordSuspiciousActivity(susp, blocked, ip,
                                                 "Rate limit exceeded", t)
             IN  [requests |-> r1,
                  suspicious_ips |-> rec.suspicious_ips,
                  blocked_ips |-> rec.blocked_ips,
                  result |-> [allowed |-> FALSE,
                              reason |-> "Rate limit exceeded",
                              retry_after |-> WindowRetryAfter]]
        ELSE [requests |-> Put(r1, key, Append(kept, t)),
              suspicious_ips |-> susp, blocked_ips |-> blocked,
              result |-> [allowed |-> TRUE,
                          remaining |-> WindowLimit - (Len(kept) + 1)]]

\* check_rate_limit that lets a block lapse once the advertised retry-after
\* has passed since the IP's last recorded event
CheckRateLimitExpiring(reqs, susp, blocked, ip, user_id, t) ==
    LET lapsed == /\ ip \in blocked
                  /\ t - susp[ip][Len(susp[ip])].timestamp
                        >= Seconds(BlockedRetryAfter)
        b      == IF lapsed THEN blocked \ {ip} ELSE blocked
    IN  IF IsIpBlocked(b, ip)
        THEN [requests |-> reqs, suspicious_ips |-> susp, blocked_ips |-> b,
              result |-> IpBlockedResult]
        ELSE CheckWindow(reqs, susp, b, ip, user_id, t)

\* check_rate_limit that counts the request against its window before it
\* looks at the block set
CheckRateLimitWindowFirst(reqs, susp, blocked, ip, user_id, t) ==
    LET w == CheckWindow(reqs, susp, blocked, ip, user_id, t)
    IN  IF IsIpBlocked(blocked, ip)
        THEN [w EXCEPT !.result = IpBlockedResult]
        ELSE w

\* RateLimiter.check_rate_limit(ip, user_id) at time t: the three
\* dictionaries afterwards and the returned verdict
CheckRateLimit(reqs, susp, blocked, ip, user_id, t) ==
    IF IsIpBlocked(blocked, ip)
    THEN [requests |-> reqs, suspicious_ips |-> susp, blocked_ips |-> blocked,
          result |-> IpBlockedResult]
    ELSE CheckWindow(reqs, susp, blocked, ip, user_id, t)

-----------------------------------------------------------------------------
(* rate_limiter.py: rate_limit_middleware; auth.py: get_current_user *)

SkipPaths == {"/health", "/metrics", "/docs", "/openapi.json"}

\* What the call get_current_user() of line 153 can produce.  The function is
\* a FastAPI dependency, get_current_user(credentials = Depends(security)),
\* and the middleware calls it with no argument: credentials is then the
\* Depends object itself and "credentials.credentials" raises AttributeError,
\* an internal (non-HTTP) error, on every call.
DirectCallOutcomes == {"error"}

\* a middleware for a resolved user whose 429 carries no Retry-After header
MiddlewareNoRetryAfter(path, auth, user_id, role, lims, t) ==
    LET r == IsAllowed(lims, user_id, role, t)
    IN  [forward |-> r.ok, limiters |-> r.limiters,
         steps |-> IF r.ok THEN <<"bucket_admit">> ELSE <<"bucket_deny">>,
         status |-> IF r.ok THEN 0 ELSE 429, retry_after |-> 0]

\* rate_limit_middleware up to "await call_next(request)": whether the request
\* is forwarded, the buckets afterwards, and the response when it is not (its
\* status and its Retry-After header; retry_after 0 stands for no header)
RateLimitMiddleware(path, auth, user_id, role, lims, t) ==
    IF path \in SkipPaths
    THEN [forward |-> TRUE, limiters |-> lims, steps |-> <<>>, status |-> 0,
          retry_after |-> 0]
    ELSE CASE auth = "user" ->
                LET r == IsAllowed(lims, user_id, role, t)
                    reset_time == GetResetTime(r.limiters, user_id, role, t)
                IN
                IF ~r.ok
                THEN [forward |-> FALSE, limiters |-> r.limiters,
                      steps |-> <<"bucket_deny">>, status |-> 429,
                      \* Retry-After: str(int(reset_time))
                      retry_after |-> reset_time.num \div reset_time.den]
                ELSE [forward |-> TRUE, limiters |-> r.limiters,
                      steps |-> <<"bucket_admit">>, status |-> 0,
                      retry_after |-> 0]
           [] auth = "unauthorized" ->   \* HTTPException 401: passes through
                [forward |-> TRUE, limiters |-> lims,
                 steps |-> <<"mw_unauthorized">>, status |-> 0,
                 retry_after |-> 0]
           [] OTHER ->                   \* except Exception: request proceeds
                [forward |-> TRUE, limiters |-> lims,
                 steps |-> <<"mw_error">>, status |-> 0, retry_after |-> 0]

-----------------------------------------------------------------------------
(* api/routes.py, api/streaming_routes.py, api/langchain_routes.py *)

\* schemas.py, AnswerRequest: question has min_length=1, max_length=1000; a
\* body that fails the schema is answered 422 before the handler runs
AnswerRequestAccepts(q) == q.len >= 1 /\ q.len <= 1000

\* answer_question that validates the question before it checks the limiter
AnswerQuestionValidatesFirst(reqs, susp, blocked, ip, user_id, q, backend, t) ==
    LET rl == CheckRateLimit(reqs, susp, blocked, ip, user_id, t)
        v  == ValidateQuestion(q)
    IN  IF ~AnswerRequestAccepts(q)
        THEN [requests |-> reqs, suspicious_ips |-> susp, blocked_ips |-> blocked,
              steps |-> <<"schema_reject">>, status |-> 422,
              reason |-> "Unprocessable", retry_after |-> 0, errors |-> <<>>]
        ELSE IF ~v.valid
        THEN [requests |-> reqs, suspicious_ips |-> susp, blocked_ips |-> blocked,
              steps |-> <<"validate_fail">>,
              status |-> 400, reason |-> "Invalid input", retry_after |-> 0,
              errors |-> v.errors]
        ELSE IF ~rl.result.allowed
        THEN [requests |-> rl.requests, suspicious_ips |-> rl.suspicious_ips,
              blocked_ips |-> rl.blocked_ips,
              steps |-> IF rl.result.reason = "IP blocked"
                        THEN <<"validate_ok", "block_check:blocked">>
                        ELSE <<"validate_ok", "block_check", "window_deny">>,
              status |-> 429, reason |-> rl.result.reason,
              retry_after |-> rl.result.retry_after, errors |-> <<>>]
        ELSE [requests |-> rl.requests, suspicious_ips |-> rl.suspicious_ips,
              blocked_ips |-> rl.blocked_ips,
              steps |-> <<"validate_ok", "block_check", "window_allow", "backend">>,
              status |-> IF backend = "ok" THEN 200 ELSE 500,
              reason |-> "", retry_after |-> 0, errors |-> <<>>]

\* answer_question that gives the window slot back when the question fails
\* validation or the pipeline fails
AnswerQuestionRefunds(reqs, susp, blocked, ip, user_id, q, backend, t) ==
    LET rl == CheckRateLimit(reqs, susp, blocked, ip, user_id, t)
        v  == ValidateQuestion(q)
    IN  IF ~AnswerRequestAccepts(q)
        THEN [requests |-> reqs, suspicious_ips |-> susp, blocked_ips |-> blocked,
              steps |-> <<"schema_reject">>, status |-> 422,
              reason |-> "Unprocessable", retry_after |-> 0, errors |-> <<>>]
        ELSE IF ~rl.result.allowed
        THEN [requests |-> rl.requests, suspicious_ips |-> rl.suspicious_ips,
              blocked_ips |-> rl.blocked_ips,
              steps |-> IF rl.result.reason = "IP blocked"
                        THEN <<"block_check:blocked">>
                        ELSE <<"block_check", "window_deny">>,
              status |-> 429, reason |-> rl.result.reason,
              retry_after |-> rl.result.retry_after, errors |-> <<>>]
        ELSE IF ~v.valid
        THEN [requests |-> reqs, suspicious_ips |-> susp, blocked_ips |-> blocked,
              steps |-> <<"block_check", "window_allow", "validate_fail">>,
              status |-> 400, reason |-> "Invalid input", retry_after |-> 0,
              errors |-> v.errors]
        ELSE [requests |-> IF backend = "ok" THEN rl.requests ELSE reqs,
              suspicious_ips |-> rl.suspicious_ips,
              blocked_ips |-> rl.blocked_ips,
              steps |-> <<"block_check", "window_allow", "validate_ok", "backend">>,
              status |-> IF backend = "ok" THEN 200 ELSE 500,
              reason |-> "", retry_after |-> 0, errors |-> <<>>]

\* answer_question: the limiter state afterwards and the response (status,
\* the reason or the validation errors of its detail, its Retry-After header)
AnswerQuestion(reqs, susp, blocked, ip, user_id, q, backend, t) ==
    LET rl == CheckRateLimit(reqs, susp, blocked, ip, user_id, t)
        v  == ValidateQuestion(q)
    IN  IF ~AnswerRequestAccepts(q)
        THEN [requests |-> reqs, suspicious_ips |-> susp, blocked_ips |-> blocked,
              steps |-> <<"schema_reject">>, status |-> 422,
              reason |-> "Unprocessable", retry_after |-> 0, errors |-> <<>>]
        ELSE IF ~rl.result.allowed
        THEN [requests |-> rl.requests, suspicious_ips |-> rl.suspicious_ips,
              blocked_ips |-> rl.blocked_ips,
              steps |-> IF rl.result.reason = "IP blocked"
                        THEN <<"block_check:blocked">>
                        ELSE <<"block_check", "window_deny">>,
              status |-> 429, reason |-> rl.result.reason,
              retry_after |-> rl.result.retry_after, errors |-> <<>>]
        ELSE IF ~v.valid
        THEN [requests |-> rl.requests, suspicious_ips |-> rl.suspicious_ips,
              blocked_ips |-> rl.blocked_ips,
              steps |-> <<"block_check", "window_allow", "validate_fail">>,
              status |-> 400, reason |-> "Invalid input", retry_after |-> 0,
              errors |-> v.errors]
        ELSE [requests |-> rl.requests, suspicious_ips |-> rl.suspicious_ips,
              blocked_ips |-> rl.blocked_ips,
              steps |-> <<"block_check", "window_allow", "validate_ok", "backend">>,
              status |-> IF backend = "ok" THEN 200 ELSE 500,
              reason |-> "", retry_after |-> 0, errors |-> <<>>]

\* ask_question_streaming: streams the pipeline's answer; an error of the
\* pipeline is sent as a chunk of the stream
AskQuestionStreaming(q, backend) ==
    [steps |-> <<"backend">>, status |-> 200]

\* ask_question (LangChain): answers with the RAG system's result
AskQuestion(q, backend) ==
    [steps |-> <<"backend">>, status |-> IF backend = "ok" THEN 200 ELSE 500]

-----------------------------------------------------------------------------
(* The application: Spec *)

IPs == {"10.0.0.1"}
Users == {"viewer", "analyst"}          \* user_id; the role has the same name
Questions ==
    { Question(22, FALSE, 0, FALSE),    \* "What is the EU AI Act?"
      Question(2, FALSE, 0, FALSE),     \* "Hi"
      Question(1001, FALSE, 0, FALSE) } \* "a" * 1001
BackendOutcomes == {"ok", "error"}

\* what a request did: the checks it went through, in order, and its answer
Obs(op, route, ip, user, steps, status, reason, retry_after) ==
    [op |-> op, route |-> route, ip |-> ip, user |-> user, steps |-> steps,
     status |-> status, reason |-> reason, retry_after |-> retry_after]

Init ==
    /\ now = 0
    /\ user_limiters = EmptyDict
    /\ requests = EmptyDict
    /\ suspicious_ips = EmptyDict
    /\ blocked_ips = {}
    /\ windows = EmptyDict
    /\ pc = EmptyDict
    /\ last = Obs("none", "", "", "", <<>>, 0, "", 0)

\* time passes: half a minute (while the first window has not yet slid past),
\* or the hour a blocked client is told to wait
Tick ==
    /\ now < Seconds(WindowSeconds)
    /\ \E d \in {Seconds(30), Seconds(BlockedRetryAfter)} : now' = now + d
    /\ last' = Obs("tick", "", "", "", <<>>, 0, "", 0)
    /\ UNCHANGED <<user_limiters, requests, suspicious_ips, blocked_ips, pc, windows>>

\* POST /v1/answer
Answer ==
    \E ip \in IPs, u \in Users, q \in Questions, be \in BackendOutcomes,
       auth \in DirectCallOutcomes :
        LET mw == RateLimitMiddleware("/v1/answer", auth, u, u, user_limiters, now)
            h  == AnswerQuestion(requests, suspicious_ips, blocked_ips, ip, u, q, be, now)
        IN  /\ user_limiters' = mw.limiters
            /\ IF mw.forward
               THEN /\ requests' = h.requests
                    /\ suspicious_ips' = h.suspicious_ips
                    /\ blocked_ips' = h.blocked_ips
                    /\ last' = Obs("request", "/v1/answer", ip, u, mw.steps \o h.steps,
                                   h.status, h.reason, h.retry_after)
               ELSE /\ UNCHANGED <<requests, suspicious_ips, blocked_ips>>
                    /\ last' = Obs("request", "/v1/answer", ip, u, mw.steps,
                                   mw.status, "Rate limit exceeded", mw.retry_after)
            /\ UNCHANGED <<now, pc, windows>>

\* POST /v1/streaming/ask
StreamingAsk ==
    \E ip \in IPs, u \in Users, q \in Questions, be \in BackendOutcomes,
       auth \in DirectCallOutcomes :
        LET mw == RateLimitMiddleware("/v1/streaming/ask", auth, u, u, user_limiters, now)
            h  == AskQuestionStreaming(q, be)
        IN  /\ user_limiters' = mw.limiters
            /\ last' = IF mw.forward
                       THEN Obs("request", "/v1/streaming/ask", ip, u,
                                mw.steps \o h.steps, h.status, "", 0)
                       ELSE Obs("request", "/v1/streaming/ask", ip, u, mw.steps,
                                mw.status, "Rate limit exceeded", mw.retry_after)
            /\ UNCHANGED <<now, requests, suspicious_ips, blocked_ips, pc, windows>>

\* POST /v1/langchain/ask
LangchainAsk ==
    \E ip \in IPs, u \in Users, q \in Questions, be \in BackendOutcomes,
       auth \in DirectCallOutcomes :
        LET mw == RateLimitMiddleware("/v1/langchain/ask", auth, u, u, user_limiters, now)
            h  == AskQuestion(q, be)
        IN  /\ user_limiters' = mw.limiters
            /\ last' = IF mw.forward
                       THEN Obs("request", "/v1/langchain/ask", ip, u,
                                mw.steps \o h.steps, h.status, "", 0)
                       ELSE Obs("request", "/v1/langchain/ask", ip, u, mw.steps,
                                mw.status, "Rate limit exceeded", mw.retry_after)
            /\ UNCHANGED <<now, requests, suspicious_ips, blocked_ips, pc, windows>>

Next == Tick \/ Answer \/ StreamingAsk \/ LangchainAsk

Spec == Init /\ [][Next]_vars

-----------------------------------------------------------------------------
(* Properties of the application *)

\* x occurs in seq and y does not occur before it
Precedes(seq, x, y) ==
    \E i \in 1..Len(seq) : seq[i] = x /\ \A j \in 1..i : seq[j] # y

Events(susp, ip) == IF ip \in DOMAIN susp THEN susp[ip] ELSE <<>>

\* the step is a request (a tick leaves last.op = "tick")
IsRequest == last'.op = "request"

\* C3: once 5 abuse events are recorded for an IP, the IP is blocked and the
\* next check_rate_limit for that IP answers not allowed, "IP blocked",
\* retry_after 3600, for every identity (also one with an empty window, and
\* the anonymous one).
C3_FiveEventsBlock ==
    \A ip \in DOMAIN suspicious_ips :
        Len(suspicious_ips[ip]) >= 5 =>
            /\ IsIpBlocked(blocked_ips, ip)
            /\ \A u \in Users \cup {""} :
                 CheckRateLimit(requests, suspicious_ips, blocked_ips, ip, u, now).result
                    = [allowed |-> FALSE, reason |-> "IP blocked", retry_after |-> 3600]

\* an identity that never used its window is answered "IP blocked" on an IP
\* with 5 recorded events
C3_Witness ==
    /\ last.op = "request" /\ last.route = "/v1/answer"
    /\ last.reason = "IP blocked" /\ last.retry_after = 3600
    /\ Len(Events(suspicious_ips, last.ip)) = 5
    /\ Key(last.ip, last.user) \notin DOMAIN requests

\* C4: every request that reaches the generation backend has passed the
\* block check, the window check and the input validation before.
C4_BackendOnlyAfterVetting ==
    (last.op = "request" /\ Contains(last.steps, "backend")) =>
        /\ Precedes(last.steps, "block_check", "backend")
        /\ Precedes(last.steps, "window_allow", "backend")
        /\ Precedes(last.steps, "validate_ok", "backend")

\* C5: a request is forwarded to its handler's work only if the token bucket
\* admitted it and the window check allowed it.
C5_AllowNeedsBucketAndWindow ==
    (last.op = "request" /\ last.route = "/v1/answer"
        /\ Contains(last.steps, "backend")) =>
        /\ Contains(last.steps, "bucket_admit")
        /\ Contains(last.steps, "window_allow")

\* C6: a request during whose evaluation the middleware failed with an
\* internal error is rejected: nothing runs after the failure.
C6_FailClosed ==
    (last.op = "request" /\ Contains(last.steps, "mw_error")) =>
        /\ last.steps = <<"mw_error">>
        /\ last.status >= 500

IsViolation(steps) ==
    \/ Contains(steps, "bucket_deny")
    \/ Contains(steps, "validate_fail")
    \/ Contains(steps, "window_deny")

\* C7: every violation (token-bucket denial, validation failure, window
\* denial) appends one abuse event for the client IP.
C7_EveryViolationRecorded ==
    [][(IsRequest /\ IsViolation(last'.steps)) =>
          Len(Events(suspicious_ips', last'.ip))
             = Len(Events(suspicious_ips, last'.ip)) + 1]_vars

GateSteps(steps) == SelectSeq(steps, LAMBDA x : x # "mw_error")

C10_BlockIsPermanent ==
    [][\A ip \in blocked_ips : ip \in blocked_ips']_vars

\* an IP is still answered "IP blocked" an hour and more after its last event
C10_Witness ==
    /\ last.op = "request" /\ last.reason = "IP blocked"
    /\ last.ip \in blocked_ips
    /\ now >= suspicious_ips[last.ip][5].timestamp + Seconds(3600)

\* C16: a request from a blocked IP is answered 403 with a generic body: never
\* with 429, never with the internal reason.
C16_BlockedGets403 ==
    [][(IsRequest /\ last'.ip \in blocked_ips) =>
          /\ last'.status = 403
          /\ last'.reason # "IP blocked"]_vars

-----------------------------------------------------------------------------
(* The application that never stops serving: SpecLive                      *)
(*                                                                         *)
(* The server's event loop keeps taking the next request, and the clock    *)
(* keeps running up to the model's horizon: some step is always taken      *)
(* while one is possible.                                                  *)

SpecLive == Init /\ [][Next]_vars /\ WF_vars(Next)

\* the window entry of key k exists and its newest request is older than an
\* idle TTL of 30 minutes
IdleWindowEntry(k) ==
    /\ k \in DOMAIN requests
    /\ \A i \in 1..Len(requests[k]) : now - requests[k][i] > Seconds(30 * 60)

\* the bucket of user u exists and was last used more than 30 minutes ago
IdleBucket(u) ==
    /\ u \in DOMAIN user_limiters
    /\ now - user_limiters[u].last_refill > Seconds(30 * 60)

\* C17: every token bucket and every window entry that has received no
\* request for longer than the idle TTL is eventually removed from its map:
\* unless requests for it keep arriving, from some time on whenever it is
\* idle it is removed later.
C17_IdleEntriesEvicted ==
    \A ip \in IPs, u \in Users :
        /\ \/ []<><<IsRequest /\ last'.ip = ip /\ last'.user = u>>_vars
           \/ <>[](IdleWindowEntry(Key(ip, u)) =>
                     <>(Key(ip, u) \notin DOMAIN requests))
        /\ \/ []<><<IsRequest /\ last'.user = u>>_vars
           \/ <>[](IdleBucket(u) => <>(u \notin DOMAIN user_limiters))

-----------------------------------------------------------------------------
(* The limiters driven directly, side by side: SpecLimiters                *)
(*                                                                         *)
(* Each call presents the same identity at the same instant to             *)
(*   - rate_limit_middleware's branch for a resolved user (lines 156-173), *)
(*   - a FixedWindowLimiter(WindowSeconds, WindowLimit),                   *)
(*   - the handler answer_question with its check_rate_limit.              *)
(* Every limiter sees every sequence of call times; none of them reads     *)
(* another's state.                                                        *)

LimiterUsers == {"viewer"}

\* the instants at which calls are made: 0 and one tick later, 9 s and 10 s
\* after these (the Retry-After values of a refused viewer), the window
\* length and one tick more
Times ==
    {0, 1, Seconds(9) + 1, Seconds(10),
     Seconds(WindowSeconds), Seconds(WindowSeconds) + 1}

\* The questions asked: "What is the EU AI Act?" and "Hi" in every call,
\* "a" * 1001 (which the request schema refuses) in the first call only
LimiterQuestions(lims) ==
    IF lims = EmptyDict
    THEN Questions
    ELSE {Question(22, FALSE, 0, FALSE), Question(2, FALSE, 0, FALSE)}

InitLimiters ==
    /\ now = 0
    /\ user_limiters = EmptyDict
    /\ requests = EmptyDict
    /\ suspicious_ips = EmptyDict
    /\ blocked_ips = {}
    /\ windows = EmptyDict
    /\ pc = EmptyDict
    /\ last = NoOp

\* the clock moves on to a later instant
LimitersTick ==
    /\ \E t \in Times : t > now /\ now' = t
    /\ UNCHANGED <<user_limiters, requests, suspicious_ips, blocked_ips, pc, windows,
                   last>>

LimitersCall ==
    \E ip \in IPs, u \in LimiterUsers, q \in LimiterQuestions(user_limiters),
       be \in BackendOutcomes :
        LET mw == RateLimitMiddleware("/v1/answer", "user", u, u, user_limiters, now)
            fw == FixedWindowIsAllowed(windows, WindowSeconds, WindowLimit,
                                       Key(ip, u), now)
            h  == AnswerQuestion(requests, suspicious_ips, blocked_ips, ip, u, q,
                                 be, now)
        IN  /\ user_limiters' = mw.limiters
            /\ windows' = fw.windows
            /\ requests' = h.requests
            /\ suspicious_ips' = h.suspicious_ips
            /\ blocked_ips' = h.blocked_ips
            /\ last' = [op |-> "call", time |-> now, ip |-> ip, user |-> u,
                        q |-> q,
                        mw |-> [forward |-> mw.forward, steps |-> mw.steps,
                                status |-> mw.status,
                                retry_after |-> mw.retry_after],
                        fw |-> fw.ok,
                        h |-> [steps |-> h.steps, status |-> h.status,
                               reason |-> h.reason,
                               retry_after |-> h.retry_after,
                               errors |-> h.errors]]
            /\ UNCHANGED <<now, pc>>

NextLimiters == LimitersTick \/ LimitersCall

SpecLimiters == InitLimiters /\ [][NextLimiters]_vars

\* the step is a call of the limiters
IsCall == last'.op = "call" /\ now' = now

\* the window of key k holds exactly WindowLimit entries, all made at time t
FullAt(w, k, t) ==
    /\ k \in DOMAIN w
    /\ Len(w[k]) = WindowLimit
    /\ \A i \in 1..Len(w[k]) : w[k][i] = t

\* the window of key k has entries, and all of them were made more than the
\* window length before t
AllOlderThanWindow(w, k, t) ==
    /\ k \in DOMAIN w
    /\ w[k] # <<>>
    /\ \A i \in 1..Len(w[k]) : t > w[k][i] + Seconds(WindowSeconds)

\* C13: for a window tracker with window W and limit M (FixedWindowLimiter,
\* and the window check of check_rate_limit, which an IP that is not blocked
\* reaches): after M allowed calls for a key at time t a further call at time
\* t is denied and leaves the window as it is; a call at a time later than
\* t + W is allowed, and afterwards the key's window holds exactly that one
\* new timestamp.
C13_WindowDeniesThenSlides ==
    [][IsCall =>
          LET k == Key(last'.ip, last'.user) IN
          /\ FullAt(windows, k, now) =>
                ~last'.fw /\ windows'[k] = windows[k]
          /\ AllOlderThanWindow(windows, k, now) =>
                last'.fw /\ windows'[k] = <<now>>
          /\ (FullAt(requests, k, now) /\ ~IsIpBlocked(blocked_ips, last'.ip)) =>
                /\ last'.h.steps = <<"block_check", "window_deny">>
                /\ last'.h.reason = "Rate limit exceeded"
                /\ requests'[k] = requests[k]
          /\ (AllOlderThanWindow(requests, k, now)
                /\ ~IsIpBlocked(blocked_ips, last'.ip)) =>
                /\ Contains(last'.h.steps, "window_allow")
                /\ requests'[k] = <<now>>]_vars

\* after a refusal in a full window, a call made later than the window length
\* was allowed by both trackers and is the only entry of both windows
C13_Witness ==
    /\ last.op = "call" /\ last.time = now /\ last.fw
    /\ Contains(last.h.steps, "window_allow")
    /\ windows[Key(last.ip, last.user)] = <<now>>
    /\ requests[Key(last.ip, last.user)] = <<now>>
    /\ Events(suspicious_ips, last.ip) # <<>>
    /\ \A i \in 1..Len(suspicious_ips[last.ip]) :
          now > suspicious_ips[last.ip][i].timestamp + Seconds(WindowSeconds)

\* the handler refused the call as throttled or blocked
LimiterDenied(h) ==
    Contains(h.steps, "window_deny") \/ Contains(h.steps, "block_check:blocked")

\* C15 as stated: a request rejected for invalid input (its question is not
\* valid, and the limiter did not refuse it first) gets 400 carrying the
\* validation error list.
C15_InvalidAlwaysGets400 ==
    (last.op = "call" /\ ~ValidateQuestion(last.q).valid
        /\ ~LimiterDenied(last.h)) =>
        /\ last.h.status = 400
        /\ last.h.errors = ValidateQuestion(last.q).errors

\* C15, amended: a request whose question validate_question rejects gets 400
\* carrying the validation error list; a question the request schema rejects
\* (empty, or longer than 1000 characters) gets 422 before the handler runs
\* and never the validator's errors; every throttled request, refused by the
\* token bucket or by the window check, gets 429 carrying a Retry-After
\* header (60 from the window check, at least 1 from the middleware).
C15_RejectAndThrottleStatus ==
    last.op = "call" =>
        LET v == ValidateQuestion(last.q) IN
        /\ Contains(last.h.steps, "validate_fail") =>
              /\ last.h.status = 400
              /\ last.h.errors = v.errors /\ v.errors # <<>>
        /\ (~v.valid /\ ~LimiterDenied(last.h)) =>
              \/ Contains(last.h.steps, "validate_fail")
              \/ /\ last.h.steps = <<"schema_reject">>
                 /\ last.h.status = 422 /\ last.h.errors = <<>>
                 /\ (last.q.len < 1 \/ last.q.len > 1000)
        /\ Contains(last.h.steps, "window_deny") =>
              last.h.status = 429 /\ last.h.retry_after = 60
        /\ ~last.mw.forward =>
              /\ last.mw.steps = <<"bucket_deny">>
              /\ last.mw.status = 429 /\ last.mw.retry_after >= 1

\* a call that the empty token bucket refused with Retry-After 9, half a
\* token having trickled in
C15_Witness ==
    /\ last.op = "call" /\ ~last.mw.forward
    /\ last.mw.status = 429 /\ last.mw.retry_after = 9
    /\ user_limiters[last.user].tokens > 0

\* C18: after a throttle answer carrying Retry-After r, the next call of the
\* same identity, made at least r seconds later with no call in between, is
\* not throttled: after a refusal by the token bucket the bucket admits it;
\* after a refusal by the window check (r = 60) the window check does not
\* refuse it, and allows it unless the IP has been blocked meanwhile.
C18_RetryAfterIsEnough ==
    [][(IsCall /\ last.op = "call" /\ last'.user = last.user
            /\ last'.ip = last.ip) =>
          /\ (~last.mw.forward
                /\ now >= last.time + Seconds(last.mw.retry_after)) =>
                last'.mw.forward
          /\ (Contains(last.h.steps, "window_deny")
                /\ now >= last.time + Seconds(last.h.retry_after)) =>
                /\ ~Contains(last'.h.steps, "window_deny")
                /\ ~IsIpBlocked(blocked_ips, last'.ip) =>
                      Contains(last'.h.steps, "window_allow")]_vars

\* The retry came exactly 60 s after the refusal and was allowed: the only
\* abuse events are refusals at time 0, when the window was full, and a call
\* between them and now would have been refused and recorded too.
C18_Witness ==
    /\ last.op = "call" /\ last.time = Seconds(60) /\ now = Seconds(60)
    /\ Contains(last.h.steps, "window_allow") /\ last.mw.forward
    /\ requests[Key(last.ip, last.user)] = <<now>>
    /\ Events(suspicious_ips, last.ip) # <<>>
    /\ \A i \in 1..Len(suspicious_ips[last.ip]) :
          suspicious_ips[last.ip][i].timestamp = 0

\* tokens of bucket b after the time-based refill at time t
RefilledTokens(b, t) ==
    Min(b.capacity, b.tokens + (t - b.last_refill) * b.refill_rate)

\* sequence p is the beginning of sequence w
IsPrefix(p, w) == Len(p) <= Len(w) /\ \A i \in 1..Len(p) : w[i] = p[i]

\* what a step does to tokens and window entries that were spent before it,
\* and what a call does with the token and the slot it spends
ConsumptionStaysSpent ==
    /\ \A u \in DOMAIN user_limiters :
          /\ u \in DOMAIN user_limiters'
          /\ user_limiters'[u].tokens <= RefilledTokens(user_limiters[u], now')
    /\ \A k \in DOMAIN requests :
          /\ k \in DOMAIN requests'
          /\ IsPrefix(SelectSeq(requests[k],
                                LAMBDA rt : now' - rt < Seconds(WindowSeconds)),
                      SelectSeq(requests'[k],
                                LAMBDA rt : now' - rt < Seconds(WindowSeconds)))
    /\ \A k \in DOMAIN windows :
          /\ k \in DOMAIN windows'
          /\ IsPrefix(SelectSeq(windows[k],
                                LAMBDA rt : rt >= now' - Seconds(WindowSeconds)),
                      SelectSeq(windows'[k],
                                LAMBDA rt : rt >= now' - Seconds(WindowSeconds)))
    /\ IsCall =>
          LET u  == last'.user
              kk == Key(last'.ip, last'.user)
              w0 == IF kk \in DOMAIN requests THEN requests[kk] ELSE <<>>
          IN  /\ (last'.mw.forward /\ u \in DOMAIN user_limiters) =>
                    user_limiters'[u].tokens
                       = RefilledTokens(user_limiters[u], now) - Seconds(1)
              /\ Contains(last'.h.steps, "window_allow") =>
                    /\ last'.h.status \in {200, 400, 500}
                    /\ kk \in DOMAIN requests'
                    /\ requests'[kk] # <<>>
                    /\ requests'[kk][Len(requests'[kk])] = now
                    /\ Len(requests'[kk])
                         = 1 + Len(SelectSeq(w0,
                                 LAMBDA rt : now - rt < Seconds(WindowSeconds)))

\* C19: consumption is final.  A call that the token bucket admitted leaves
\* the bucket one token below its refilled level, and a call that the window
\* check allowed leaves its timestamp as the newest entry of the key's
\* window, also when the question then fails validation or the backend
\* fails; in every step tokens rise by no more than the time-based refill,
\* no bucket and no window disappears, and every window keeps, in order and
\* before any newer entry, all its entries that have not aged out.
C19_ConsumptionIsFinal ==
    [][ConsumptionStaysSpent]_vars

\* the backend failed on a call that had been admitted by the bucket and
\* allowed by the window check: its token and its window slot are spent
C19_Witness ==
    /\ last.op = "call" /\ last.time = now
    /\ last.mw.forward /\ last.h.status = 500
    /\ Contains(last.h.steps, "backend")
    /\ user_limiters[last.user].tokens = Seconds(10) - Seconds(1)
    /\ requests[Key(last.ip, last.user)] = <<now>>

\* C20: a denied call consumes nothing.  A refused consume(cost) leaves
\* tokens at the refilled value min(capacity, tokens + elapsed * rate), for
\* the middleware's call and for a consume() of any cost on any bucket
\* reached; a refused window check appends no timestamp to the key's window
\* (which is the old window less its aged-out entries), in check_rate_limit
\* and in FixedWindowLimiter.
C20_DeniedConsumesNothing ==
    [][IsCall =>
          LET u == last'.user
              k == Key(last'.ip, last'.user)
          IN
          /\ ~last'.mw.forward =>
                /\ u \in DOMAIN user_limiters
                /\ user_limiters'[u].tokens = RefilledTokens(user_limiters[u], now)
                /\ user_limiters'[u].tokens < Seconds(1)
          /\ \A v \in DOMAIN user_limiters, cost \in 1..MaxCost :
                LET c == Consume(user_limiters[v], cost, now) IN
                IF RefilledTokens(user_limiters[v], now) >= Seconds(cost)
                THEN c.ok
                ELSE /\ ~c.ok
                     /\ c.bucket.tokens = RefilledTokens(user_limiters[v], now)
          /\ Contains(last'.h.steps, "window_deny") =>
                /\ Len(requests'[k]) = WindowLimit
                /\ requests'[k] =
                      SelectSeq(requests[k],
                                LAMBDA rt : now - rt < Seconds(WindowSeconds))
          /\ ~last'.fw =>
                /\ Len(windows'[k]) = WindowLimit
                /\ windows'[k] =
                      SelectSeq(windows[k],
                                LAMBDA rt : rt >= now - Seconds(WindowSeconds))]_vars

\* a call refused by the token bucket, which keeps the half token that had
\* trickled in, and by the full FixedWindowLimiter window
C20_Witness ==
    /\ last.op = "call" /\ last.time = now
    /\ ~last.mw.forward /\ user_limiters[last.user].tokens = 1
    /\ user_limiters[last.user].last_refill = now
    /\ ~last.fw /\ Len(windows[Key(last.ip, last.user)]) = WindowLimit

-----------------------------------------------------------------------------
(* A burst against fresh buckets, the clock standing still: SpecBurst *)

BurstCalls == 51          \* back-to-back calls issued per identity

InitBurst ==
    /\ now = 0
    /\ user_limiters = EmptyDict
    /\ requests = EmptyDict
    /\ suspicious_ips = EmptyDict
    /\ blocked_ips = {}
    /\ windows = EmptyDict
    /\ pc = EmptyDict
    /\ last = [op |-> "burst", results |-> [r \in Roles |-> <<>>]]

\* rate_limiter.is_allowed(role, role): the user of each role calls again at
\* once; the first call creates the bucket, every call is one consume()
BurstCall ==
    \E role \in Roles :
        LET r == IsAllowed(user_limiters, role, role, now) IN
        /\ Len(last.results[role]) < BurstCalls
        /\ user_limiters' = r.limiters
        /\ last' = [last EXCEPT !.results[role] = Append(@, r.ok)]
        /\ UNCHANGED <<now, requests, suspicious_ips, blocked_ips, pc, windows>>

NextBurst == BurstCall

SpecBurst == InitBurst /\ [][NextBurst]_vars

\* C11: for every role, of the back-to-back consume() calls on a fresh bucket
\* with no elapsed time exactly the first c return true (viewer c = 10,
\* analyst c = 20, admin c = 50) and call c+1 (and every one after) false.
C11_BurstAdmitsExactlyCapacity ==
    \A role \in Roles :
        LET c == CASE role = "viewer" -> 10 [] role = "analyst" -> 20
                   [] role = "admin" -> 50
        IN  \A i \in 1..Len(last.results[role]) :
                last.results[role][i] = (i <= c)

\* every role has made its call c+1 and was refused
C11_Witness ==
    /\ Len(last.results["viewer"]) >= 11 /\ ~last.results["viewer"][11]
    /\ Len(last.results["analyst"]) >= 21 /\ ~last.results["analyst"][21]
    /\ Len(last.results["admin"]) >= 51 /\ ~last.results["admin"][51]
    /\ user_limiters["admin"].tokens = 0

-----------------------------------------------------------------------------
(* Properties of the buckets of SpecBucket *)

\* A step keeps every bucket's capacity and refill rate, creates a bucket
\* with the limits of the role of the call, and serves a call on an existing
\* bucket from that bucket's tokens
BucketKeepsItsRole ==
    /\ \A u \in DOMAIN user_limiters :
          /\ u \in DOMAIN user_limiters'
          /\ user_limiters'[u].capacity = user_limiters[u].capacity
          /\ user_limiters'[u].refill_rate = user_limiters[u].refill_rate
    /\ \A v \in (DOMAIN user_limiters') \ (DOMAIN user_limiters) :
          /\ v = last'.user
          /\ user_limiters'[v].capacity = Seconds(LimitsOf(last'.role).burst)
          /\ user_limiters'[v].refill_rate * 60
                = LimitsOf(last'.role).requests_per_minute
    /\ (now' = now /\ last'.user \in DOMAIN user_limiters) =>
          CASE last'.op = "is_allowed" ->
                 user_limiters'[last'.user].tokens
                   = RefilledTokens(user_limiters[last'.user], now)
                       - (IF last'.ok THEN Seconds(1) ELSE 0)
            [] last'.op \in {"get_remaining_tokens", "get_reset_time"} ->
                 user_limiters'[last'.user] = user_limiters[last'.user]
            [] OTHER -> TRUE

\* C21: a bucket's capacity and refill rate are those of the role of the
\* request that created it and never change afterwards; a later call under
\* another role uses the existing bucket: is_allowed takes its token from the
\* bucket's current (refilled) tokens, and the two readers leave it as it is.
C21_BucketKeepsItsRole == [][BucketKeepsItsRole]_vars

\* is_allowed under role admin was served from a bucket that was created
\* with the viewer's capacity and has been used before
C21_Witness ==
    /\ last.op = "is_allowed" /\ last.role = "admin" /\ last.ok
    /\ user_limiters[last.user].capacity = Seconds(10)
    /\ user_limiters[last.user].tokens < Seconds(10) - Seconds(1)

\* C22: get_reset_time always equals (capacity - tokens) / refill rate with
\* the bucket's own capacity and refill rate, for every role passed by the
\* caller, and is 0 when the bucket is full.
C22_ResetTimeUsesOwnRate ==
    last.op = "get_reset_time" =>
        LET b == user_limiters[last.user] IN
        /\ b.tokens >= b.capacity => last.num = 0
        /\ last.num * (b.refill_rate * TicksPerSecond)
              = (b.capacity - b.tokens) * last.den

-----------------------------------------------------------------------------
(* The two window trackers, check_rate_limit and FixedWindowLimiter, called
   for one key at the same instants; last.allowed and last.fw_allowed keep
   the times of the requests each of them has allowed *)

WindowIp == "10.0.0.1"
WindowUser == "viewer"
WindowKey == Key(WindowIp, WindowUser)

\* the instants of the calls: around one and two window lengths
WindowTimes ==
    {0, 1, Seconds(WindowSeconds) - 1, Seconds(WindowSeconds),
     Seconds(WindowSeconds) + 1, 2 * Seconds(WindowSeconds),
     2 * Seconds(WindowSeconds) + 1}

InitWindows ==
    /\ now = 0
    /\ user_limiters = EmptyDict
    /\ requests = EmptyDict
    /\ suspicious_ips = EmptyDict
    /\ blocked_ips = {}
    /\ windows = EmptyDict
    /\ pc = EmptyDict
    /\ last = [op |-> "none", time |-> 0,
               result |-> [allowed |-> TRUE, remaining |-> WindowLimit],
               fw |-> TRUE, allowed |-> <<>>, fw_allowed |-> <<>>]

\* the clock moves on to a later instant
WindowsTick ==
    /\ \E t \in WindowTimes : t > now /\ now' = t
    /\ UNCHANGED <<user_limiters, requests, suspicious_ips, blocked_ips, pc,
                   windows, last>>

\* security_rate_limiter.check_rate_limit(ip, user_id) and
\* FixedWindowLimiter(60, max).is_allowed(key) at the same instant
WindowsCheck ==
    LET c  == CheckRateLimit(requests, suspicious_ips, blocked_ips, WindowIp,
                             WindowUser, now)
        fw == FixedWindowIsAllowed(windows, WindowSeconds, WindowLimit,
                                   WindowKey, now)
    IN  /\ requests' = c.requests
        /\ suspicious_ips' = c.suspicious_ips
        /\ blocked_ips' = c.blocked_ips
        /\ windows' = fw.windows
        /\ last' = [op |-> "check", time |-> now, result |-> c.result,
                    fw |-> fw.ok,
                    allowed |-> IF c.result.allowed
                                THEN Append(last.allowed, now)
                                ELSE last.allowed,
                    fw_allowed |-> IF fw.ok THEN Append(last.fw_allowed, now)
                                   ELSE last.fw_allowed]
        /\ UNCHANGED <<now, user_limiters, pc>>

NextWindows == WindowsTick \/ WindowsCheck

SpecWindows == InitWindows /\ [][NextWindows]_vars

\* the step is a call of the two trackers
IsCheck == last'.op = "check" /\ now' = now

\* the entries of window w of the key
EntriesOf(w) == IF WindowKey \in DOMAIN w THEN w[WindowKey] ELSE <<>>

\* some entry of sequence w has age exactly a at time t
HasAge(w, a, t) == \E i \in 1..Len(w) : t - w[i] = a

\* every entry of sequence w is at most a old at time t and not later than t
AllWithin(w, a, t) == \A i \in 1..Len(w) : w[i] <= t /\ t - w[i] <= a

\* When either tracker has counted, its stored entries are within the window
\* and not in the future, and an entry exactly one window old is kept by both
\* trackers or dropped by both
EntriesFreshAndBoundaryAgrees ==
    IsCheck =>
        /\ AllWithin(EntriesOf(windows'), Seconds(WindowSeconds), now)
        /\ (WindowIp \notin blocked_ips) =>
              AllWithin(EntriesOf(requests'), Seconds(WindowSeconds), now)
        /\ ( /\ WindowIp \notin blocked_ips
             /\ HasAge(EntriesOf(requests), Seconds(WindowSeconds), now)
             /\ HasAge(EntriesOf(windows), Seconds(WindowSeconds), now) )
             => ( HasAge(EntriesOf(requests'), Seconds(WindowSeconds), now)
                  <=> HasAge(EntriesOf(windows'), Seconds(WindowSeconds), now) )

\* C23: at the instant a window check counts a key's entries every stored
\* timestamp of the key lies within windowSeconds of now and none is later
\* than now, and an entry whose age is exactly windowSeconds is treated the
\* same way by FixedWindowLimiter.is_allowed and by check_rate_limit.
C23_BoundaryEntryTreatedAlike == [][EntriesFreshAndBoundaryAgrees]_vars

\* the number of entries of sequence h in the half-open interval [a, a + d)
CountIn(h, a, d) == Len(SelectSeq(h, LAMBDA x : a <= x /\ x < a + d))

\* C25: for the key and every half-open interval of length windowSeconds, the
\* number of requests allowed by a window check with a timestamp in the
\* interval is at most the limit, and the stored window never holds more than
\* the limit; this for check_rate_limit and for FixedWindowLimiter.
C25_AtMostLimitPerWindow ==
    /\ Len(EntriesOf(requests)) <= WindowLimit
    /\ Len(EntriesOf(windows)) <= WindowLimit
    /\ \A a \in 0..now :
          /\ CountIn(last.allowed, a, Seconds(WindowSeconds)) <= WindowLimit
          /\ CountIn(last.fw_allowed, a, Seconds(WindowSeconds)) <= WindowLimit

\* more requests than the limit have been allowed over time, the window is
\* full again and the last request was refused by the window check
C25_Witness ==
    /\ last.op = "check" /\ ~last.result.allowed
    /\ last.result.reason = "Rate limit exceeded"
    /\ Len(last.allowed) > WindowLimit
    /\ Len(EntriesOf(requests)) = WindowLimit
    /\ ~last.fw /\ Len(last.fw_allowed) > WindowLimit

\* The IP is blocked exactly when it has BlockThreshold events, it never has
\* more, the request that records the last event is answered as a window
\* denial, and 'IP blocked' is answered only to an IP that was blocked before
BlockedAtFifthEvent ==
    /\ (WindowIp \in blocked_ips')
          <=> Len(Events(suspicious_ips', WindowIp)) >= BlockThreshold
    /\ Len(Events(suspicious_ips', WindowIp)) <= BlockThreshold
    /\ ( /\ Len(Events(suspicious_ips, WindowIp)) < BlockThreshold
         /\ Len(Events(suspicious_ips', WindowIp)) = BlockThreshold )
         => /\ IsCheck
            /\ ~last'.result.allowed
            /\ last'.result.reason = "Rate limit exceeded"
            /\ last'.result.retry_after = WindowRetryAfter
    /\ (IsCheck /\ ~last'.result.allowed /\ last'.result.reason = "IP blocked")
         => /\ WindowIp \in blocked_ips
            /\ last'.result.retry_after = BlockedRetryAfter
            /\ suspicious_ips' = suspicious_ips

\* C27: in every reachable state an IP is in the block set exactly when at
\* least 5 abuse events are recorded for it; with events recorded only by
\* check_rate_limit the count never exceeds 5, the request that records the
\* fifth event is itself answered 'Rate limit exceeded' (retry_after 60) and
\* only later requests are answered 'IP blocked'.
C27_BlockedIffFiveEvents == [][BlockedAtFifthEvent]_vars

\* the request that recorded the fifth event has just been answered
C27_Witness ==
    /\ last.op = "check" /\ ~last.result.allowed
    /\ last.result.reason = "Rate limit exceeded"
    /\ last.result.retry_after = WindowRetryAfter
    /\ Len(Events(suspicious_ips, WindowIp)) = BlockThreshold
    /\ Events(suspicious_ips, WindowIp)[BlockThreshold].timestamp = now
    /\ WindowIp \in blocked_ips

-----------------------------------------------------------------------------
(* Abuse events under Spec *)

\* A step, a request or any passage of time, keeps every recorded event of
\* every IP, and an IP with BlockThreshold events is blocked
EventsKept ==
    \A ip \in IPs :
        /\ Len(Events(suspicious_ips', ip)) >= Len(Events(suspicious_ips, ip))
        /\ \A i \in 1..Len(Events(suspicious_ips, ip)) :
              Events(suspicious_ips', ip)[i] = Events(suspicious_ips, ip)[i]
        /\ Len(Events(suspicious_ips', ip)) >= BlockThreshold
              => ip \in blocked_ips'

\* C24: abuse events never decay: the number of events recorded for an IP
\* is non-decreasing over every sequence of operations and any passage of
\* time, so 5 violations spread over an arbitrarily long period still block
\* the IP.
C24_EventsNeverDecay == [][EventsKept]_vars

\* an IP is blocked by five events of which the first and the last lie more
\* than an hour apart
C24_Witness ==
    \E ip \in IPs :
        /\ ip \in blocked_ips
        /\ Len(Events(suspicious_ips, ip)) = BlockThreshold
        /\ Events(suspicious_ips, ip)[BlockThreshold].timestamp
              - Events(suspicious_ips, ip)[1].timestamp
              >= Seconds(BlockedRetryAfter)

-----------------------------------------------------------------------------
(* The admission rate of one identity's bucket: SpecRate.  last.admitted
   counts, per instant, the is_allowed() calls that were admitted *)

RateUsers == {"viewer", "analyst"}

\* the instants of the calls
RateTimes == {0, 1, Seconds(1), Seconds(10) + 1}

InitRate ==
    /\ now = 0
    /\ user_limiters = EmptyDict
    /\ requests = EmptyDict
    /\ suspicious_ips = EmptyDict
    /\ blocked_ips = {}
    /\ windows = EmptyDict
    /\ pc = EmptyDict
    /\ \E u \in RateUsers :
          last = [op |-> "rate", user |-> u, admitted |-> [t \in RateTimes |-> 0]]

\* the clock moves on to a later instant
RateTick ==
    /\ \E t \in RateTimes : t > now /\ now' = t
    /\ UNCHANGED <<user_limiters, requests, suspicious_ips, blocked_ips, pc,
                   windows, last>>

\* rate_limiter.is_allowed(user_id, role): one consume() of cost 1
RateCall ==
    LET r == IsAllowed(user_limiters, last.user, last.user, now) IN
    /\ user_limiters' = r.limiters
    /\ last' = IF r.ok THEN [last EXCEPT !.admitted[now] = @ + 1] ELSE last
    /\ UNCHANGED <<now, requests, suspicious_ips, blocked_ips, pc, windows>>

NextRate == RateTick \/ RateCall

SpecRate == InitRate /\ [][NextRate]_vars

RECURSIVE SumOver(_, _)
\* the sum of f over the finite set S
SumOver(f, S) ==
    IF S = {} THEN 0
    ELSE LET x == CHOOSE y \in S : TRUE IN f[x] + SumOver(f, S \ {x})

\* the calls admitted at the instants from a to b
AdmittedBetween(a, b) ==
    SumOver(last.admitted, {t \in RateTimes : a <= t /\ t <= b})

\* C26: for every identity and every time interval of duration T seconds the
\* number of consume() calls of cost 1 admitted within the interval is at
\* most capacity + refill rate * T.
C26_AdmissionRateBound ==
    \A a \in RateTimes, b \in RateTimes :
        (a <= b /\ b <= now /\ last.user \in DOMAIN user_limiters) =>
            AdmittedBetween(a, b) * Seconds(1)
              <= user_limiters[last.user].capacity
                   + user_limiters[last.user].refill_rate * (b - a)

\* the bound is met with equality over an interval of more than a second:
\* the full burst at its start and every refilled token spent by its end
C26_Witness ==
    /\ last.user \in DOMAIN user_limiters
    /\ now >= Seconds(1)
    /\ last.admitted[0] * Seconds(1) = user_limiters[last.user].capacity
    /\ last.admitted[now] > 0
    /\ AdmittedBetween(0, now) * Seconds(1)
         = user_limiters[last.user].capacity
             + user_limiters[last.user].refill_rate * now

-----------------------------------------------------------------------------
(* The gate of a request, the token bucket of the identity and then
   check_rate_limit(ip, user_id), for several IPs and identities: SpecKeys *)

MaxGateCalls == 7         \* gate evaluations in one behaviour

\* (ip, user_id) pairs; "" is the missing user id (None)
KeyPairs ==
    ({"10.0.0.1", "10.0.0.2"} \X {"", "anonymous", "viewer"})
      \cup {<<"fe80::1", "2:bob">>, <<"fe80::1:2", "bob">>}

InitKeys ==
    /\ now = 0
    /\ user_limiters = EmptyDict
    /\ requests = EmptyDict
    /\ suspicious_ips = EmptyDict
    /\ blocked_ips = {}
    /\ windows = EmptyDict
    /\ pc = EmptyDict
    /\ last = [op |-> "none", n |-> 0, ip |-> "", user |-> "", ok |-> TRUE,
               result |-> [allowed |-> TRUE, remaining |-> WindowLimit]]

\* one request of identity p[2] from address p[1]: is_allowed on the
\* identity's bucket (an identified user only) and, when that admits,
\* check_rate_limit
GateCall ==
    \E p \in KeyPairs :
        LET b == IF p[2] = ""
                 THEN [limiters |-> user_limiters, ok |-> TRUE]
                 ELSE IsAllowed(user_limiters, p[2], "viewer", now)
            c == IF b.ok
                 THEN CheckRateLimit(requests, suspicious_ips, blocked_ips,
                                     p[1], p[2], now)
                 ELSE [requests |-> requests, suspicious_ips |-> suspicious_ips,
                       blocked_ips |-> blocked_ips,
                       result |-> [allowed |-> FALSE,
                                   reason |-> "Rate limit exceeded",
                                   retry_after |-> 0]]
        IN  /\ last.n < MaxGateCalls
            /\ user_limiters' = b.limiters
            /\ requests' = c.requests
            /\ suspicious_ips' = c.suspicious_ips
            /\ blocked_ips' = c.blocked_ips
            /\ last' = [op |-> "gate", n |-> last.n + 1, ip |-> p[1],
                        user |-> p[2], ok |-> b.ok, result |-> c.result]
            /\ UNCHANGED <<now, pc, windows>>

NextKeys == GateCall

SpecKeys == InitKeys /\ [][NextKeys]_vars

\* the step is a gate evaluation
IsGate == last'.op = "gate" /\ last'.n = last.n + 1

\* the window that check_rate_limit reads for pair q
WindowSeenBy(reqs, q) ==
    IF Key(q[1], q[2]) \in DOMAIN reqs THEN reqs[Key(q[1], q[2])] ELSE <<>>

\* A gate evaluation for one pair uses a key that no other pair uses and
\* leaves the window of every other pair as it was
PairsShareNoWindow ==
    IsGate =>
        \A q \in KeyPairs \ {<<last'.ip, last'.user>>} :
            /\ Key(q[1], q[2]) # Key(last'.ip, last'.user)
            /\ WindowSeenBy(requests', q) = WindowSeenBy(requests, q)

\* C28: distinct (ip, user_id) pairs never share window state: the key built
\* by check_rate_limit differs for different pairs, including user_id None
\* versus the literal user id 'anonymous' and ips or user ids that contain ':'.
C28_DistinctPairsDistinctKeys == [][PairsShareNoWindow]_vars

\* the value of dictionary d at k, "none" where d has no k
ValueAt(d, k) == IF k \in DOMAIN d THEN d[k] ELSE "none"

\* A gate evaluation for (ip X, identity A) leaves every bucket but A's,
\* every window but that of key X:A, and every other IP's events and block
\* status as they were
GateTouchesOwnStateOnly ==
    IsGate =>
        /\ \A u \in (DOMAIN user_limiters \cup DOMAIN user_limiters')
                      \ {last'.user} :
              ValueAt(user_limiters', u) = ValueAt(user_limiters, u)
        /\ \A k \in (DOMAIN requests \cup DOMAIN requests')
                      \ {Key(last'.ip, last'.user)} :
              ValueAt(requests', k) = ValueAt(requests, k)
        /\ \A ip \in (DOMAIN suspicious_ips \cup DOMAIN suspicious_ips')
                       \ {last'.ip} :
              ValueAt(suspicious_ips', ip) = ValueAt(suspicious_ips, ip)
        /\ blocked_ips' \ {last'.ip} = blocked_ips \ {last'.ip}

\* C29: a gate evaluation for (ip X, identity A) changes only A's token
\* bucket, the window of key X:A and X's abuse record and block status;
\* every other identity's bucket, every other key's window and every other
\* IP's abuse record and block status are unchanged.
C29_GateFrame == [][GateTouchesOwnStateOnly]_vars

\* a request from 10.0.0.1 was refused by the window check and recorded
\* against that IP while another IP has an event of its own and another
\* identity a used bucket and a window
C29_Witness ==
    /\ last.op = "gate" /\ last.ip = "10.0.0.1" /\ last.user = "viewer"
    /\ ~last.result.allowed
    /\ Len(Events(suspicious_ips, "10.0.0.1")) >= 1
    /\ Len(Events(suspicious_ips, "10.0.0.2")) >= 1
    /\ "anonymous" \in DOMAIN user_limiters
    /\ user_limiters["anonymous"].tokens < user_limiters["anonymous"].capacity
    /\ Key("10.0.0.2", "anonymous") \in DOMAIN requests

-----------------------------------------------------------------------------
(* The bucket of the identity under the concurrent first requests of
   SpecConcurrent *)

\* A step of a caller never stores a second bucket: the identity's bucket,
\* once created, stays, its creation data stay, its tokens do not grow while
\* the clock stands still, and it always shows every admitted consumption
OneBucketPerIdentity ==
    /\ DOMAIN user_limiters' \subseteq {"viewer"}
    /\ \A u \in DOMAIN user_limiters :
          /\ u \in DOMAIN user_limiters'
          /\ user_limiters'[u].capacity = user_limiters[u].capacity
          /\ user_limiters'[u].refill_rate = user_limiters[u].refill_rate
          /\ user_limiters'[u].tokens <= user_limiters[u].tokens
    /\ \A u \in DOMAIN user_limiters' :
          user_limiters'[u].tokens
            = user_limiters'[u].capacity
                - Seconds(Cardinality({c \in Callers : pc'[c] = "admitted"}))

\* C30: for each identity exactly one token bucket is ever created: under
\* concurrent first requests of one identity all callers consume from the
\* same bucket, and no bucket that already had tokens consumed is replaced
\* by a fresh full one, so get_user_limiter's check-then-create loses no
\* consumption.
C30_OneBucketPerIdentity == [][OneBucketPerIdentity]_vars

\* three of the concurrent first requests have run, all on the one bucket,
\* and others have not started yet
C30_Witness ==
    /\ Cardinality(Admitted) = 3
    /\ \E c \in Callers : pc[c] = "start"
    /\ DOMAIN user_limiters = {"viewer"}
    /\ user_limiters["viewer"].tokens
         = user_limiters["viewer"].capacity - Seconds(3)

=============================================================================
